---- MODULE Spec2Model ----
(***************************************************************************)
(* Concurrency primitives and sequential helpers of rendis/devtoolkit:     *)
(*   ConcurrentExec     (src/concurrency.go, lines 125-289)                *)
(*   ConcurrentWorkers  (src/concurrent_worker.go)                         *)
(*   ConcurrentManager  (src/concurrent_manager.go)                        *)
(*   Resilience         (src/resilience.go)                                *)
(*   ProcessChain       (src/process_chain.go)                             *)
(* Each component has its own specification; the variables of the other   *)
(* components stay at their initial values.                                *)
(***************************************************************************)
EXTENDS Integers, Sequences, FiniteSets, TLC

(***************************************************************************)
(* Bounds of the model.                                                    *)
(***************************************************************************)
\* batches one ConcurrentExec instance is given in a run
MaxBatches == 3
\* functions in one batch
MaxFns == 2
\* Done() calls in a run
MaxDone == 1

\* the caller's thread: the instance is used by one consumer at a time
Clients == {"a"}

VARIABLES
    \* ---- ConcurrentExec (src/concurrency.go:148-156)
    running,     \* ce.running
    results,     \* ce.results, the current slice
    errs,        \* ce.errs, the current slice
    wg,          \* ce.concurrencyWg counter
    curb,        \* batch whose context / cancel function the fields hold (0: none yet)
    cancelled,   \* derived contexts that have been cancelled
    fns,         \* the functions given to the batch of the current slices
    workers,     \* executorWorker goroutines that have not returned
    pc,          \* position of each client thread
    ret,         \* what each client's last completed call returned
    doneWait,    \* Done() waiters blocked in concurrencyWg.Wait()
    donePass,    \* Done() waiters past Wait(), before unblockExecution()
    doneTorn,    \* Done() waiters past unblockExecution(), before close(done)
    doneClosed,  \* done channels closed so far
    panicked,    \* the process died of a run-time panic
    \* ---- ConcurrentWorkers (src/concurrent_worker.go:12-20)
    maxWorkers,  \* cw.maxWorkers, the capacity of cw.ch
    closed,      \* cw.closed
    err,         \* cw.err
    ch,          \* tokens in cw.ch
    chClosed,    \* cw.ch has been closed
    cwWg,        \* cw.wg counter
    mu,          \* holder of cw.mu ("" when free)
    closeOnce,   \* cw.closeOnce: "fresh", the thread inside Do, or "done"
    cwPc,        \* position of each thread using the launcher
    unitsRun,    \* launched goroutines whose fn() is running
    unitsDone,   \* launched goroutines past cw.wg.Done(), before <-cw.ch
    submitted,   \* Execute calls made so far
    waited,      \* a Wait call has returned
    \* ---- ConcurrentManager (src/concurrent_manager.go:15-45)
    built,       \* NewConcurrentManager returned
    min,         \* c.min
    max,         \* c.max
    rate2,       \* c.workerIncreaseRate, as twice its value
    prevMax,     \* c.prevMax
    currentMax,  \* c.currentMax
    allocated,   \* c.allocated
    once,        \* c.once has run
    tokens,      \* tokens in c.workers, the current channel
    cmWg,        \* c.wg counter
    loops,       \* tickToIncrease goroutines: per session, its position
    session,     \* sessions so far (init calls)
    cmPc,        \* position of each thread using the manager
    cmPanicked,  \* the process died of a run-time panic
    \* ---- Resilience (src/resilience.go:57-62 and the locals of RetryOperation)
    newErr,      \* the error NewResilience returned
    maxRetries,  \* r.maxRetries
    waitTime,    \* r.waitTime, in milliseconds
    backoff,     \* r.backoff
    rawError,    \* r.rawError
    rsPc,        \* position of the RetryOperation call
    retryI,      \* the loop counter i
    curWait,     \* the local waitTime
    lastErr,     \* the local lastErr
    calls,       \* what each invocation of the operation returned, in order
    slept,       \* milliseconds slept by the call
    rsRet,       \* what the call returned
    \* ---- ProcessChain (src/process_chain.go:90-94 and the locals of execute)
    links,       \* p.links
    saveStep,    \* p.saveStep: "nil" or "fn"
    addLinkNameToError,   \* p.addLinkNameToError
    addRet,      \* what the last AddLink / AddLinks call returned
    ignorableLinks,       \* the ignorableLinks map of the execute call, as a set
    exMode,      \* the method that entered execute
    linkPos,     \* index of the link the range loop is at
    successExecutedLinks, \* the local successExecutedLinks
    ran,         \* the Step invocations of the call, in order
    saves,       \* the save step invocations of the call, in order
    pchPc,       \* position of the execute call
    pchRet       \* what the call returned

ceVars == <<running, results, errs, wg, curb, cancelled, fns, workers, pc, ret,
            doneWait, donePass, doneTorn, doneClosed, panicked>>

cwVars == <<maxWorkers, closed, err, ch, chClosed, cwWg, mu, closeOnce, cwPc,
            unitsRun, unitsDone, submitted, waited>>

cmVars == <<built, min, max, rate2, prevMax, currentMax, allocated, once, tokens,
            cmWg, loops, session, cmPc, cmPanicked>>

rsVars == <<newErr, maxRetries, waitTime, backoff, rawError, rsPc, retryI, curWait,
            lastErr, calls, slept, rsRet>>

pchVars == <<links, saveStep, addLinkNameToError, addRet, ignorableLinks, exMode,
             linkPos, successExecutedLinks, ran, saves, pchPc, pchRet>>

vars == <<ceVars, cwVars, cmVars, rsVars, pchVars>>

(***************************************************************************)
(* ConcurrentExec                                                          *)
(***************************************************************************)

\* Error values (src/concurrency.go:136-140)
ConcurrentExecAlreadyRunningErr == "concurrent fns already running"
ConcurrentExecNilContextErr == "context must not be nil"
ConcurrentExecFnsNilOrEmptyErr == "fns must not be nil or empty"

\* A ConcurrentFn by what it does: the value and error it returns, and whether
\* it blocks until its context is cancelled before returning.
\* Values: "nil" the nil interface, "v1"/"v2" non-pointer values, "p1" a non-nil
\* pointer, "nilptr" a typed nil pointer.
FnKinds ==
    { [val |-> "v1",     err |-> "nil", blocks |-> FALSE],
      [val |-> "nilptr", err |-> "e1",  blocks |-> FALSE],
      [val |-> "p1",     err |-> "nil", blocks |-> TRUE],
      [val |-> "nil",    err |-> "e2",  blocks |-> TRUE] }

FnSeqs == UNION { [1..n -> FnKinds] : n \in 1..MaxFns }

IsPtr(v) == v \in {"p1", "nilptr"}
IsNilPtr(v) == v = "nilptr"

\* make([]any, n) / make([]error, n): n zero values
ZeroSlice(n) == [i \in 1..n |-> "nil"]

Accessors == {"Results", "Errors", "GetNotNilErrors"}
WaitPc(op) == <<op, "wait">>
PassPc(op) == <<op, "pass">>
Idle == <<"idle", "">>
ExecInitPc == <<"ExecuteFns", "init">>
CancelWaitPc == <<"CancelExecution", "wait">>

NoRet == [op |-> "none", val |-> <<>>]

InitCE ==
    /\ running = FALSE
    /\ results = <<>>
    /\ errs = <<>>
    /\ wg = 0
    /\ curb = 0
    /\ cancelled = {}
    /\ fns = <<>>
    /\ workers = {}
    /\ pc = [c \in Clients |-> Idle]
    /\ ret = [c \in Clients |-> NoRet]
    /\ doneWait = 0
    /\ donePass = 0
    /\ doneTorn = 0
    /\ doneClosed = 0
    /\ panicked = FALSE

\* argument checks that look at the functions first: the error of a call with
\* a nil context and no functions rests on the order of the checks
ArgErrorFnsFirst(ctxNil, n) ==
    IF n = 0 THEN ConcurrentExecFnsNilOrEmptyErr
    ELSE IF ctxNil THEN ConcurrentExecNilContextErr
    ELSE "nil"

\* ExecuteFns' argument checks, for a context that is nil or not and n
\* functions (src/concurrency.go:165-171); "nil" when both pass
ArgError(ctxNil, n) ==
    IF ctxNil THEN ConcurrentExecNilContextErr
    ELSE IF n = 0 THEN ConcurrentExecFnsNilOrEmptyErr
    ELSE "nil"

\* an ExecuteFns that looks at the running flag before its arguments: the
\* error of a bad call on a busy instance rests on the order of the tests
ExecuteFnsErrBusyFirst(ctxNil, n, busy) ==
    IF busy THEN ConcurrentExecAlreadyRunningErr ELSE ArgError(ctxNil, n)

\* the error ExecuteFns returns for a context that is nil or not, n functions
\* and an instance that is busy or not: the argument checks come first, then
\* blockExecution (src/concurrency.go:165-175, 220-222); "nil" for none
ExecuteFnsErr(ctxNil, n, busy) ==
    IF ArgError(ctxNil, n) # "nil" THEN ArgError(ctxNil, n)
    ELSE IF busy THEN ConcurrentExecAlreadyRunningErr
    ELSE "nil"

\* ExecuteFns with arguments that fail a check returns the error
\* (src/concurrency.go:165-171): no state is touched
ExecuteFnsBadArgs(c) ==
    /\ ~panicked
    /\ UNCHANGED <<cwVars, cmVars, rsVars, pchVars>>
    /\ pc[c] = Idle
    /\ \E ctxNil \in BOOLEAN, n \in 0..MaxFns :
          /\ ArgError(ctxNil, n) # "nil"
          /\ ret' = [ret EXCEPT ![c] =
                        [op |-> "ExecuteFns", val |-> <<ExecuteFnsErr(ctxNil, n, running)>>]]
    /\ UNCHANGED <<running, results, errs, wg, curb, cancelled, fns, workers, pc,
                   doneWait, donePass, doneTorn, doneClosed, panicked>>

\* a test that takes the instance for busy only while workers are outstanding:
\* the rejection of a second batch rests on the flag, and must fail without it
IsRunningByWg == wg > 0

\* blockExecution's test `if ce.running` (src/concurrency.go:220)
IsRunning == running

\* blockExecution (src/concurrency.go:217-225), called from executeFns
blockExecution(c) ==
    /\ ~panicked
    /\ UNCHANGED <<cwVars, cmVars, rsVars, pchVars>>
    /\ pc[c] = Idle
    /\ curb < MaxBatches
    /\ IF IsRunning
          THEN /\ ret' = [ret EXCEPT ![c] =
                            [op |-> "ExecuteFns", val |-> <<ConcurrentExecAlreadyRunningErr>>]]
               /\ UNCHANGED <<running, pc>>
          ELSE /\ running' = TRUE
               /\ pc' = [pc EXCEPT ![c] = ExecInitPc]
               /\ UNCHANGED ret
    /\ UNCHANGED <<results, errs, wg, curb, cancelled, fns, workers,
                   doneWait, donePass, doneTorn, doneClosed, panicked>>

\* the goroutines `go ce.executorWorker(i, fn)` of batch b
Launched(b, f) ==
    { [b |-> b, pos |-> i, fn |-> f[i], st |-> "spawned", ctx |-> 0] : i \in 1..Len(f) }

\* executeFns after blockExecution: init and the launch loop
\* (src/concurrency.go:184-198)
executeFnsInit(c) ==
    /\ ~panicked
    /\ UNCHANGED <<cwVars, cmVars, rsVars, pchVars>>
    /\ pc[c] = ExecInitPc
    /\ \E f \in FnSeqs :
          /\ errs' = ZeroSlice(Len(f))
          /\ results' = ZeroSlice(Len(f))
          /\ curb' = curb + 1
          /\ fns' = f
          /\ wg' = wg + Len(f)
          /\ workers' = workers \cup Launched(curb + 1, f)
    /\ pc' = [pc EXCEPT ![c] = Idle]
    /\ ret' = [ret EXCEPT ![c] = [op |-> "ExecuteFns", val |-> <<"ok">>]]
    /\ UNCHANGED <<running, cancelled, doneWait, donePass, doneTorn, doneClosed, panicked>>

\* executorWorker calls fn(ce.concurrencyCtx): the context field is read when
\* the goroutine gets to run (src/concurrency.go:202). A function that does not
\* wait for its context is called and returns in executorWorkerFinish.
executorWorkerStart(b, i) ==
    /\ ~panicked
    /\ UNCHANGED <<cwVars, cmVars, rsVars, pchVars>>
    /\ \E w \in workers :
          /\ w.b = b
          /\ w.pos = i
          /\ w.st = "spawned"
          /\ w.fn.blocks
          /\ workers' = (workers \ {w}) \cup {[w EXCEPT !.st = "running", !.ctx = curb]}
    /\ UNCHANGED <<running, results, errs, wg, curb, cancelled, fns, pc, ret,
                   doneWait, donePass, doneTorn, doneClosed, panicked>>

\* the function of worker w returns: at once, or once the context it was given
\* is cancelled
FnReturns(w) == IF w.fn.blocks THEN w.st = "running" /\ w.ctx \in cancelled ELSE TRUE

\* a store without the nil test: the empty slot of a nil pointer rests on
\* val.IsNil(), and must fail without it
StoreResultAlways(rs, pos, v) == [rs EXCEPT ![pos] = v]

\* the store of a result (src/concurrency.go:204-214)
StoreResult(rs, pos, v) ==
    IF ~IsPtr(v) \/ (IsPtr(v) /\ ~IsNilPtr(v)) THEN [rs EXCEPT ![pos] = v] ELSE rs

\* executorWorker after fn returned: errs[pos], results[pos], wg.Done()
\* (src/concurrency.go:201-215); an index past the current slice panics
executorWorkerFinish(b, i) ==
    /\ ~panicked
    /\ UNCHANGED <<cwVars, cmVars, rsVars, pchVars>>
    /\ \E w \in workers :
          /\ w.b = b
          /\ w.pos = i
          /\ FnReturns(w)
          /\ IF w.pos > Len(errs)
                THEN /\ panicked' = TRUE
                     /\ UNCHANGED <<errs, results, wg, workers>>
                ELSE /\ errs' = [errs EXCEPT ![w.pos] = w.fn.err]
                     /\ results' = StoreResult(results, w.pos, w.fn.val)
                     /\ wg' = wg - 1
                     /\ workers' = workers \ {w}
                     /\ UNCHANGED panicked
    /\ UNCHANGED <<running, curb, cancelled, fns, pc, ret, doneWait, donePass, doneTorn,
                   doneClosed>>

\* a client may use the response once an ExecuteFns has returned it
HasResponse == curb >= 1

\* Results / Errors / GetNotNilErrors are called and block in concurrencyWg.Wait()
\* (src/concurrency.go:253, 259, 265)
AccessorCall(c) ==
    /\ ~panicked
    /\ UNCHANGED <<cwVars, cmVars, rsVars, pchVars>>
    /\ pc[c] = Idle
    /\ HasResponse
    /\ \E op \in Accessors : pc' = [pc EXCEPT ![c] = WaitPc(op)]
    /\ UNCHANGED <<running, results, errs, wg, curb, cancelled, fns, workers, ret,
                   doneWait, donePass, doneTorn, doneClosed, panicked>>

\* a Wait() that does not join the workers: the accessors' join rests on the
\* counter reaching zero, and must fail without it
WgWaitNoJoin == TRUE

\* a Wait() that returns with one worker still outstanding: the stable
\* snapshot of a completed batch rests on the join being complete, and must
\* fail without it
WgWaitOneLeft == wg <= 1

\* concurrencyWg.Wait() returns
WgWaitReturns == wg = 0

AccessorWaitPass(c) ==
    /\ ~panicked
    /\ UNCHANGED <<cwVars, cmVars, rsVars, pchVars>>
    /\ pc[c][1] \in Accessors
    /\ pc[c][2] = "wait"
    /\ WgWaitReturns
    /\ pc' = [pc EXCEPT ![c] = PassPc(pc[c][1])]
    /\ UNCHANGED <<running, results, errs, wg, curb, cancelled, fns, workers, ret,
                   doneWait, donePass, doneTorn, doneClosed, panicked>>

\* a filter that lets every entry through: the selection of the failures
\* rests on the test err != nil, and must fail without it
NotNilAll(es) == es

\* GetNotNilErrors' filter (src/concurrency.go:267-273)
RECURSIVE NotNil(_)
NotNil(es) ==
    IF es = <<>> THEN <<>>
    ELSE IF Head(es) # "nil" THEN <<Head(es)>> \o NotNil(Tail(es))
    ELSE NotNil(Tail(es))

Returned(op) ==
    CASE op = "Results" -> results
      [] op = "Errors" -> errs
      [] op = "GetNotNilErrors" -> NotNil(errs)

\* unblockExecution (src/concurrency.go:227-232)
unblockExecution ==
    /\ running' = FALSE
    /\ cancelled' = cancelled \cup {curb}

\* Results / Errors / GetNotNilErrors after Wait(): unblockExecution, return
\* (src/concurrency.go:254-255, 260-261, 266-273)
AccessorReturn(c) ==
    /\ ~panicked
    /\ UNCHANGED <<cwVars, cmVars, rsVars, pchVars>>
    /\ pc[c][1] \in Accessors
    /\ pc[c][2] = "pass"
    /\ unblockExecution
    /\ ret' = [ret EXCEPT ![c] = [op |-> pc[c][1], val |-> Returned(pc[c][1])]]
    /\ pc' = [pc EXCEPT ![c] = Idle]
    /\ UNCHANGED <<results, errs, wg, curb, fns, workers,
                   doneWait, donePass, doneTorn, doneClosed, panicked>>

\* CancelExecution: unblockExecution, then it blocks in Wait()
\* (src/concurrency.go:276-278)
CancelExecution(c) ==
    /\ ~panicked
    /\ UNCHANGED <<cwVars, cmVars, rsVars, pchVars>>
    /\ pc[c] = Idle
    /\ HasResponse
    /\ unblockExecution
    /\ pc' = [pc EXCEPT ![c] = CancelWaitPc]
    /\ UNCHANGED <<results, errs, wg, curb, fns, workers, ret,
                   doneWait, donePass, doneTorn, doneClosed, panicked>>

\* CancelExecution returns from Wait() (src/concurrency.go:278-279)
CancelExecutionReturn(c) ==
    /\ ~panicked
    /\ UNCHANGED <<cwVars, cmVars, rsVars, pchVars>>
    /\ pc[c] = CancelWaitPc
    /\ WgWaitReturns
    /\ pc' = [pc EXCEPT ![c] = Idle]
    /\ ret' = [ret EXCEPT ![c] = [op |-> "CancelExecution", val |-> <<>>]]
    /\ UNCHANGED <<running, results, errs, wg, curb, cancelled, fns, workers,
                   doneWait, donePass, doneTorn, doneClosed, panicked>>

\* Done: makes the channel, starts the waiter, returns (src/concurrency.go:281-289)
Done(c) ==
    /\ ~panicked
    /\ UNCHANGED <<cwVars, cmVars, rsVars, pchVars>>
    /\ pc[c] = Idle
    /\ HasResponse
    /\ doneWait + donePass + doneTorn + doneClosed < MaxDone
    /\ doneWait' = doneWait + 1
    /\ ret' = [ret EXCEPT ![c] = [op |-> "Done", val |-> <<>>]]
    /\ UNCHANGED <<running, results, errs, wg, curb, cancelled, fns, workers, pc,
                   donePass, doneTorn, doneClosed, panicked>>

\* the waiter's concurrencyWg.Wait() returns (src/concurrency.go:284)
DoneWaitPass ==
    /\ ~panicked
    /\ UNCHANGED <<cwVars, cmVars, rsVars, pchVars>>
    /\ doneWait > 0
    /\ WgWaitReturns
    /\ doneWait' = doneWait - 1
    /\ donePass' = donePass + 1
    /\ UNCHANGED <<running, results, errs, wg, curb, cancelled, fns, workers, pc, ret,
                   doneTorn, doneClosed, panicked>>

\* the waiter's unblockExecution (src/concurrency.go:285)
DoneUnblock ==
    /\ ~panicked
    /\ UNCHANGED <<cwVars, cmVars, rsVars, pchVars>>
    /\ donePass > 0
    /\ unblockExecution
    /\ donePass' = donePass - 1
    /\ doneTorn' = doneTorn + 1
    /\ UNCHANGED <<results, errs, wg, curb, fns, workers, pc, ret, doneWait,
                   doneClosed, panicked>>

\* the waiter's close(done) (src/concurrency.go:286)
DoneClose ==
    /\ ~panicked
    /\ UNCHANGED <<cwVars, cmVars, rsVars, pchVars>>
    /\ doneTorn > 0
    /\ doneTorn' = doneTorn - 1
    /\ doneClosed' = doneClosed + 1
    /\ UNCHANGED <<running, results, errs, wg, curb, cancelled, fns, workers, pc, ret,
                   doneWait, donePass, panicked>>

\* what Results()[i] holds for a function: its value, or the zero value when
\* the value is a nil pointer (src/concurrency.go:204-214)
ResultOf(fn) == IF IsPtr(fn.val) /\ IsNilPtr(fn.val) THEN "nil" ELSE fn.val

\* a step in which one of the five response operations runs unblockExecution
\* (src/concurrency.go:254, 260, 266, 277, 285)
TeardownStep ==
    \/ \E c \in Clients : pc[c][1] \in Accessors /\ pc[c][2] = "pass" /\ pc'[c] = Idle
    \/ \E c \in Clients : pc[c] = Idle /\ pc'[c] = CancelWaitPc
    \/ doneTorn' = doneTorn + 1

NextCE ==
    \/ \E c \in Clients : ExecuteFnsBadArgs(c)
    \/ \E c \in Clients : blockExecution(c)
    \/ \E c \in Clients : executeFnsInit(c)
    \/ \E b \in 1..MaxBatches, i \in 1..MaxFns : executorWorkerStart(b, i)
    \/ \E b \in 1..MaxBatches, i \in 1..MaxFns : executorWorkerFinish(b, i)
    \/ \E c \in Clients : AccessorCall(c)
    \/ \E c \in Clients : AccessorWaitPass(c)
    \/ \E c \in Clients : AccessorReturn(c)
    \/ \E c \in Clients : CancelExecution(c)
    \/ \E c \in Clients : CancelExecutionReturn(c)
    \/ \E c \in Clients : Done(c)
    \/ DoneWaitPass
    \/ DoneUnblock
    \/ DoneClose


(***************************************************************************)
(* ConcurrentWorkers                                                       *)
(***************************************************************************)

\* largest capacity given to NewConcurrentWorkers
MaxCap == 2
\* Execute calls in a run
MaxUnits == 3

\* threads that use the launcher
CWThreads == {"t1", "t2"}

\* the errors given to Stop
StopErrs == {"nil", "e1"}

CwIdle == <<"idle", "", "">>

\* NewConcurrentWorkers (src/concurrent_worker.go:5-10)
NewConcurrentWorkers(k) ==
    /\ maxWorkers = k
    /\ closed = FALSE
    /\ err = "nil"
    /\ ch = 0
    /\ chClosed = FALSE
    /\ cwWg = 0
    /\ mu = ""
    /\ closeOnce = "fresh"

InitCW ==
    /\ \E k \in 1..MaxCap : NewConcurrentWorkers(k)
    /\ cwPc = [t \in CWThreads |-> CwIdle]
    /\ unitsRun = 0
    /\ unitsDone = 0
    /\ submitted = 0
    /\ waited = FALSE

\* Execute is called and blocks in cw.mu.Lock() (src/concurrent_worker.go:22-23)
ExecuteCall(t) ==
    /\ UNCHANGED <<ceVars, cmVars, rsVars, pchVars>>
    /\ cwPc[t] = CwIdle
    /\ submitted < MaxUnits
    /\ submitted' = submitted + 1
    /\ cwPc' = [cwPc EXCEPT ![t] = <<"Execute", "lock", "">>]
    /\ UNCHANGED <<maxWorkers, closed, err, ch, chClosed, cwWg, mu, closeOnce,
                   unitsRun, unitsDone, waited>>

\* Execute gets cw.mu and reads cw.closed: a closed launcher makes it return,
\* with cw.mu still held (src/concurrent_worker.go:23-26)
ExecuteLock(t) ==
    /\ UNCHANGED <<ceVars, cmVars, rsVars, pchVars>>
    /\ cwPc[t] = <<"Execute", "lock", "">>
    /\ mu = ""
    /\ mu' = t
    /\ cwPc' = [cwPc EXCEPT ![t] = IF closed THEN CwIdle ELSE <<"Execute", "send", "">>]
    /\ UNCHANGED <<maxWorkers, closed, err, ch, chClosed, cwWg, closeOnce,
                   unitsRun, unitsDone, submitted, waited>>

\* a send that takes no slot of the buffer: the bound on running units
\* rests on the token, and must fail without it
ChanSendNoToken(n) == n

\* cw.ch <- struct{}{}: the send blocks while the buffer is full
ChanSend(n) == IF n < maxWorkers THEN n + 1 ELSE n

\* Execute sends its token, holding cw.mu, then unlocks
\* (src/concurrent_worker.go:27-28)
ExecuteSend(t) ==
    /\ UNCHANGED <<ceVars, cmVars, rsVars, pchVars>>
    /\ cwPc[t] = <<"Execute", "send", "">>
    /\ ch < maxWorkers
    /\ ch' = ChanSend(ch)
    /\ mu' = ""
    /\ cwPc' = [cwPc EXCEPT ![t] = <<"Execute", "add", "">>]
    /\ UNCHANGED <<maxWorkers, closed, err, chClosed, cwWg, closeOnce,
                   unitsRun, unitsDone, submitted, waited>>

\* cw.wg.Add(1) and the go statement (src/concurrent_worker.go:30-37)
ExecuteLaunch(t) ==
    /\ UNCHANGED <<ceVars, cmVars, rsVars, pchVars>>
    /\ cwPc[t] = <<"Execute", "add", "">>
    /\ cwWg' = cwWg + 1
    /\ unitsRun' = unitsRun + 1
    /\ cwPc' = [cwPc EXCEPT ![t] = CwIdle]
    /\ UNCHANGED <<maxWorkers, closed, err, ch, chClosed, mu, closeOnce,
                   unitsDone, submitted, waited>>

\* a deferred function in the other order, the token given back before
\* cw.wg.Done(): the counter staying within the tokens rests on the order of
\* the two statements, and must fail without it
UnitDoneTokenFirst ==
    /\ UNCHANGED <<ceVars, cmVars, rsVars, pchVars>>
    /\ unitsRun > 0
    /\ unitsRun' = unitsRun - 1
    /\ unitsDone' = unitsDone + 1
    /\ ch' = IF ch > 0 THEN ch - 1 ELSE ch
    /\ UNCHANGED <<maxWorkers, closed, err, chClosed, cwWg, mu, closeOnce, cwPc,
                   submitted, waited>>

\* fn() returns and the deferred cw.wg.Done() runs (src/concurrent_worker.go:32-36)
UnitDone ==
    /\ UNCHANGED <<ceVars, cmVars, rsVars, pchVars>>
    /\ unitsRun > 0
    /\ unitsRun' = unitsRun - 1
    /\ unitsDone' = unitsDone + 1
    /\ cwWg' = cwWg - 1
    /\ UNCHANGED <<maxWorkers, closed, err, ch, chClosed, mu, closeOnce, cwPc,
                   submitted, waited>>

\* a unit that does not give its token back: the progress of a blocked
\* Execute rests on the deferred receive, and must fail without it
ChanRecvNoToken(n) == n

\* <-cw.ch: takes a token out of the buffer when it holds one
ChanRecv(n) == IF n > 0 THEN n - 1 ELSE n

\* the deferred <-cw.ch: takes a token; a closed, empty channel yields at once
\* (src/concurrent_worker.go:34)
UnitRelease ==
    /\ UNCHANGED <<ceVars, cmVars, rsVars, pchVars>>
    /\ unitsDone > 0
    /\ ch > 0 \/ chClosed
    /\ ch' = ChanRecv(ch)
    /\ unitsDone' = unitsDone - 1
    /\ UNCHANGED <<maxWorkers, closed, err, chClosed, cwWg, mu, closeOnce, cwPc,
                   unitsRun, submitted, waited>>

\* Wait is called and blocks in cw.wg.Wait() (src/concurrent_worker.go:40-41)
WaitCall(t) ==
    /\ UNCHANGED <<ceVars, cmVars, rsVars, pchVars>>
    /\ cwPc[t] = CwIdle
    /\ cwPc' = [cwPc EXCEPT ![t] = <<"Wait", "wg", "">>]
    /\ UNCHANGED <<maxWorkers, closed, err, ch, chClosed, cwWg, mu, closeOnce,
                   unitsRun, unitsDone, submitted, waited>>

\* threads inside Execute whose unit has been accepted (the closed check is
\* behind them) and has not been launched yet
Accepted == {t \in CWThreads : cwPc[t] \in {<<"Execute", "send", "">>, <<"Execute", "add", "">>}}

\* cw.wg.Wait() returns; Wait goes on to cw.close(nil) (src/concurrent_worker.go:41-42)
WaitWgReturns(t) ==
    /\ UNCHANGED <<ceVars, cmVars, rsVars, pchVars>>
    /\ cwPc[t] = <<"Wait", "wg", "">>
    /\ cwWg = 0
    /\ cwPc' = [cwPc EXCEPT ![t] = <<"Wait", "close", "nil">>]
    /\ UNCHANGED <<maxWorkers, closed, err, ch, chClosed, cwWg, mu, closeOnce,
                   unitsRun, unitsDone, submitted, waited>>

\* Stop(e) goes to cw.close(e) at once (src/concurrent_worker.go:45-47)
Stop(t) ==
    /\ UNCHANGED <<ceVars, cmVars, rsVars, pchVars>>
    /\ cwPc[t] = CwIdle
    /\ \E e \in StopErrs : cwPc' = [cwPc EXCEPT ![t] = <<"Stop", "close", e>>]
    /\ UNCHANGED <<maxWorkers, closed, err, ch, chClosed, cwWg, mu, closeOnce,
                   unitsRun, unitsDone, submitted, waited>>

InClose(t) == cwPc[t] \in {<<"Wait", "close", "nil">>} \cup {<<"Stop", "close", e>> : e \in StopErrs}

\* the return from close: of a Wait call, or of a Stop call
WaitedAfter(t) == IF cwPc[t][1] = "Wait" THEN TRUE ELSE waited

\* close: closeOnce.Do enters the function for the first caller only
\* (src/concurrent_worker.go:57-58)
closeEnter(t) ==
    /\ UNCHANGED <<ceVars, cmVars, rsVars, pchVars>>
    /\ InClose(t)
    /\ closeOnce = "fresh"
    /\ closeOnce' = t
    /\ UNCHANGED <<maxWorkers, closed, err, ch, chClosed, cwWg, mu, cwPc,
                   unitsRun, unitsDone, submitted, waited>>

\* a close that does not take cw.mu: the send on an open channel rests on
\* close being kept out while Execute holds the mutex, and must fail without it
closeBodyNoLock(t) ==
    /\ UNCHANGED <<ceVars, cmVars, rsVars, pchVars>>
    /\ InClose(t)
    /\ closeOnce = t
    /\ err' = cwPc[t][3]
    /\ closed' = TRUE
    /\ chClosed' = TRUE
    /\ closeOnce' = "done"
    /\ waited' = WaitedAfter(t)
    /\ cwPc' = [cwPc EXCEPT ![t] = CwIdle]
    /\ UNCHANGED <<maxWorkers, ch, cwWg, mu, unitsRun, unitsDone, submitted>>

\* the function of closeOnce.Do, under cw.mu (src/concurrent_worker.go:59-63)
closeBody(t) ==
    /\ UNCHANGED <<ceVars, cmVars, rsVars, pchVars>>
    /\ InClose(t)
    /\ closeOnce = t
    /\ mu = ""
    /\ err' = cwPc[t][3]
    /\ closed' = TRUE
    /\ chClosed' = TRUE
    /\ closeOnce' = "done"
    /\ waited' = WaitedAfter(t)
    /\ cwPc' = [cwPc EXCEPT ![t] = CwIdle]
    /\ UNCHANGED <<maxWorkers, ch, cwWg, mu, unitsRun, unitsDone, submitted>>

\* a close without the single-execution guard: a later caller records its own
\* error again; the terminal error rests on closeOnce, and must fail without it
closeAgain(t) ==
    /\ UNCHANGED <<ceVars, cmVars, rsVars, pchVars>>
    /\ InClose(t)
    /\ closeOnce = "done"
    /\ err' = cwPc[t][3]
    /\ waited' = WaitedAfter(t)
    /\ cwPc' = [cwPc EXCEPT ![t] = CwIdle]
    /\ UNCHANGED <<maxWorkers, closed, ch, chClosed, cwWg, mu, closeOnce,
                   unitsRun, unitsDone, submitted>>

\* closeOnce.Do for a later caller: returns once the first call has completed
\* (src/concurrent_worker.go:58)
closeSkip(t) ==
    /\ UNCHANGED <<ceVars, cmVars, rsVars, pchVars>>
    /\ InClose(t)
    /\ closeOnce = "done"
    /\ waited' = WaitedAfter(t)
    /\ cwPc' = [cwPc EXCEPT ![t] = CwIdle]
    /\ UNCHANGED <<maxWorkers, closed, err, ch, chClosed, cwWg, mu, closeOnce,
                   unitsRun, unitsDone, submitted>>

NextCW ==
    \/ \E t \in CWThreads : ExecuteCall(t)
    \/ \E t \in CWThreads : ExecuteLock(t)
    \/ \E t \in CWThreads : ExecuteSend(t)
    \/ \E t \in CWThreads : ExecuteLaunch(t)
    \/ UnitDone
    \/ UnitRelease
    \/ \E t \in CWThreads : WaitCall(t)
    \/ \E t \in CWThreads : WaitWgReturns(t)
    \/ \E t \in CWThreads : Stop(t)
    \/ \E t \in CWThreads : closeEnter(t)
    \/ \E t \in CWThreads : closeBody(t)
    \/ \E t \in CWThreads : closeSkip(t)


(***************************************************************************)
(* ConcurrentManager                                                       *)
(***************************************************************************)

\* largest minWorkers and maxWorkers given to NewConcurrentManager
MaxMinArg == 2
MaxMaxArg == 3
\* Wait calls in a run
MaxWaits == 1

\* threads that use the manager
CMThreads == {"m1", "m2"}

\* the sessions of a run: the first, and one more after each Wait
Sessions == 1..(MaxWaits + 1)

\* workerIncreaseRate arguments, as twice their value: 1.0, 1.5, 2.0
Rate2Args == {2, 3, 4}

\* NewConcurrentManager's normalisation (src/concurrent_manager.go:50-60)
NormMin(minArg) == IF minArg = 0 THEN 1 ELSE minArg
NormMax(minArg, maxArg) ==
    IF NormMin(minArg) > maxArg THEN NormMin(minArg) ELSE maxArg
NormRate2(r2) == IF r2 <= 2 THEN 3 ELSE r2

\* init returns: make(chan struct{}, c.max) takes a size >= 0, and the
\* c.max - c.min sends fit the buffer (src/concurrent_manager.go:114-117)
InitReturns(mn, mx) == mx >= 0 /\ mx - mn <= mx

\* init (src/concurrent_manager.go:107-118)
init ==
    /\ prevMax' = min
    /\ currentMax' = min
    /\ once' = FALSE
    /\ tokens' = max - min
    /\ session' = session + 1

\* NewConcurrentManager (src/concurrent_manager.go:49-75)
NewConcurrentManager(minArg, maxArg, r2) ==
    /\ min = NormMin(minArg)
    /\ max = NormMax(minArg, maxArg)
    /\ rate2 = NormRate2(r2)
    /\ prevMax = min
    /\ currentMax = min
    /\ once = FALSE
    /\ built = InitReturns(min, max)
    /\ tokens = IF built THEN max - min ELSE 0
    /\ session = 1
    /\ allocated = 0
    /\ cmWg = 0

InitCM ==
    /\ \E mn \in (-1)..MaxMinArg, mx \in (-1)..MaxMaxArg, r2 \in Rate2Args :
          NewConcurrentManager(mn, mx, r2)
    /\ loops = [s \in Sessions |-> <<"none", 0>>]
    /\ cmPc = [t \in CMThreads |-> "idle"]
    /\ cmPanicked = FALSE

CMRuns == built /\ ~cmPanicked

\* Allocate: c.once.Do starts tickToIncrease on the first call of the session;
\* the caller then blocks on the send (src/concurrent_manager.go:79-83)
Allocate(t) ==
    /\ UNCHANGED <<ceVars, cwVars, rsVars, pchVars>>
    /\ CMRuns
    /\ cmPc[t] = "idle"
    /\ once' = TRUE
    /\ loops' = IF once THEN loops ELSE [loops EXCEPT ![session] = <<"tick", 0>>]
    /\ cmPc' = [cmPc EXCEPT ![t] = "Allocate_send"]
    /\ UNCHANGED <<built, min, max, rate2, prevMax, currentMax, allocated, tokens,
                   cmWg, session, cmPanicked>>

\* c.workers <- struct{}{} (src/concurrent_manager.go:83)
AllocateSend(t) ==
    /\ UNCHANGED <<ceVars, cwVars, rsVars, pchVars>>
    /\ CMRuns
    /\ cmPc[t] = "Allocate_send"
    /\ tokens < max
    /\ tokens' = tokens + 1
    /\ cmPc' = [cmPc EXCEPT ![t] = "Allocate_add"]
    /\ UNCHANGED <<built, min, max, rate2, prevMax, currentMax, allocated, once,
                   cmWg, loops, session, cmPanicked>>

\* c.wg.Add(1); c.allocated.Increment() (src/concurrent_manager.go:84-85)
AllocateAdd(t) ==
    /\ UNCHANGED <<ceVars, cwVars, rsVars, pchVars>>
    /\ CMRuns
    /\ cmPc[t] = "Allocate_add"
    /\ cmWg' = cmWg + 1
    /\ allocated' = allocated + 1
    /\ cmPc' = [cmPc EXCEPT ![t] = "idle"]
    /\ UNCHANGED <<built, min, max, rate2, prevMax, currentMax, once, tokens,
                   loops, session, cmPanicked>>

\* releaseCondFn (src/concurrent_manager.go:9-11)
releaseCondFn(value) == value > 0

\* Release: c.allocated.DecrementIf(releaseCondFn)
\* (src/concurrent_manager.go:90-91, src/unnamed/part_002:140-148)
Release(t) ==
    /\ UNCHANGED <<ceVars, cwVars, rsVars, pchVars>>
    /\ CMRuns
    /\ cmPc[t] = "idle"
    /\ IF releaseCondFn(allocated)
          THEN /\ allocated' = allocated - 1
               /\ cmPc' = [cmPc EXCEPT ![t] = "Release_recv"]
          ELSE UNCHANGED <<allocated, cmPc>>
    /\ UNCHANGED <<built, min, max, rate2, prevMax, currentMax, once, tokens,
                   cmWg, loops, session, cmPanicked>>

\* <-c.workers; c.wg.Done() (src/concurrent_manager.go:92-93)
ReleaseRecv(t) ==
    /\ UNCHANGED <<ceVars, cwVars, rsVars, pchVars>>
    /\ CMRuns
    /\ cmPc[t] = "Release_recv"
    /\ tokens > 0
    /\ tokens' = tokens - 1
    /\ cmWg' = cmWg - 1
    /\ cmPc' = [cmPc EXCEPT ![t] = "idle"]
    /\ UNCHANGED <<built, min, max, rate2, prevMax, currentMax, allocated, once,
                   loops, session, cmPanicked>>

\* Wait is called and blocks in c.wg.Wait() (src/concurrent_manager.go:99-101)
CMWaitCall(t) ==
    /\ UNCHANGED <<ceVars, cwVars, rsVars, pchVars>>
    /\ CMRuns
    /\ cmPc[t] = "idle"
    /\ session + Cardinality({u \in CMThreads : cmPc[u] \in {"Wait_wg", "Wait_init"}}) <= MaxWaits
    /\ cmPc' = [cmPc EXCEPT ![t] = "Wait_wg"]
    /\ UNCHANGED <<built, min, max, rate2, prevMax, currentMax, allocated, once,
                   tokens, cmWg, loops, session, cmPanicked>>

\* c.wg.Wait() returns (src/concurrent_manager.go:101)
CMWaitWgReturns(t) ==
    /\ UNCHANGED <<ceVars, cwVars, rsVars, pchVars>>
    /\ CMRuns
    /\ cmPc[t] = "Wait_wg"
    /\ cmWg = 0
    /\ cmPc' = [cmPc EXCEPT ![t] = "Wait_init"]
    /\ UNCHANGED <<built, min, max, rate2, prevMax, currentMax, allocated, once,
                   tokens, cmWg, loops, session, cmPanicked>>

\* a sender is parked on the channel that init closes: close(c.workers) makes
\* that send panic
SenderParked == tokens = max /\ \E u \in CMThreads : cmPc[u] = "Allocate_send"

\* Wait's c.init() (src/concurrent_manager.go:103, 107-118)
CMWaitInit(t) ==
    /\ UNCHANGED <<ceVars, cwVars, rsVars, pchVars>>
    /\ CMRuns
    /\ cmPc[t] = "Wait_init"
    /\ init
    /\ cmPanicked' = SenderParked
    /\ cmPc' = [cmPc EXCEPT ![t] = "idle"]
    /\ UNCHANGED <<built, min, max, rate2, allocated, cmWg, loops>>

\* a growth that applies the rate to half the ceiling: the ratchet rests on the
\* product being no smaller than the ceiling, and must fail without it
GrownHalved(cur, r2) == (cur * r2) \div 4

\* a conversion that rounds up instead of truncating: the new ceiling rests on
\* int()'s truncation, and must fail without it
GrownRoundUp(cur, r2) == (cur * r2 + 1) \div 2

\* int(float64(c.currentMax) * c.workerIncreaseRate): the product of an int and
\* a rate that is a multiple of 0.5 is exact, and int() truncates it
\* (src/concurrent_manager.go:150)
Grown(cur, r2) == (cur * r2) \div 2

\* a new ceiling that is not held to c.max: the range of the ceiling rests on
\* the clamp, and must fail without it
NewMaxNoClamp(cur, r2, mx) == Grown(cur, r2)

\* calculateNewMax's new ceiling (src/concurrent_manager.go:149-153)
NewMax(cur, r2, mx) == IF Grown(cur, r2) > mx THEN mx ELSE Grown(cur, r2)

\* a tick of tickToIncrease: calculateNewMax, then delta
\* (src/concurrent_manager.go:126-133, 144-155)
Tick(s) ==
    /\ UNCHANGED <<ceVars, cwVars, rsVars, pchVars>>
    /\ CMRuns
    /\ loops[s][1] = "tick"
    /\ IF currentMax = max
          THEN /\ loops' = [loops EXCEPT ![s] = <<"exited", 0>>]
               /\ UNCHANGED <<prevMax, currentMax>>
          ELSE /\ prevMax' = currentMax
               /\ currentMax' = NewMax(currentMax, rate2, max)
               /\ loops' = [loops EXCEPT ![s] =
                              IF currentMax' - prevMax' > 0
                                 THEN <<"drain", currentMax' - prevMax'>>
                                 ELSE <<"tick", 0>>]
    /\ UNCHANGED <<built, min, max, rate2, allocated, once, tokens, cmWg, session,
                   cmPc, cmPanicked>>

\* one <-c.workers of the delta loop (src/concurrent_manager.go:135-137)
Drain(s) ==
    /\ UNCHANGED <<ceVars, cwVars, rsVars, pchVars>>
    /\ CMRuns
    /\ loops[s][1] = "drain"
    /\ tokens > 0
    /\ tokens' = tokens - 1
    /\ loops' = [loops EXCEPT ![s] =
                   IF loops[s][2] > 1 THEN <<"drain", loops[s][2] - 1>> ELSE <<"tick", 0>>]
    /\ UNCHANGED <<built, min, max, rate2, prevMax, currentMax, allocated, once,
                   cmWg, session, cmPc, cmPanicked>>

\* the tickToIncrease goroutines that have not returned
ActiveLoops == {s \in Sessions : loops[s][1] \in {"tick", "drain"}}

NextCM ==
    \/ \E t \in CMThreads : Allocate(t)
    \/ \E t \in CMThreads : AllocateSend(t)
    \/ \E t \in CMThreads : AllocateAdd(t)
    \/ \E t \in CMThreads : Release(t)
    \/ \E t \in CMThreads : ReleaseRecv(t)
    \/ \E t \in CMThreads : CMWaitCall(t)
    \/ \E t \in CMThreads : CMWaitWgReturns(t)
    \/ \E t \in CMThreads : CMWaitInit(t)
    \/ \E s \in Sessions : Tick(s)
    \/ \E s \in Sessions : Drain(s)

(***************************************************************************)
(* Resilience (src/resilience.go)                                          *)
(***************************************************************************)

\* largest MaxRetries option given to NewResilience
MaxRetriesArg == 3
\* largest WaitTime option given to NewResilience, in milliseconds
MaxWaitArg == 2

\* src/resilience.go:9-12, the wait time in milliseconds
defaultMaxRetries == 3
defaultWaitTime == 100

\* An error value is the list of its parts: the nil error has none, an error
\* made by errors.New has one, errors.Join keeps the parts of its non-nil
\* arguments in order.  A part is a message, the number formatted into it and
\* the prefix put in front of it.
NilErr == <<>>
ErrOf(m, n) == <<[pre |-> "", msg |-> m, arg |-> n]>>
Join(a, b) == a \o b
WithPrefix(p, e) == [i \in 1..Len(e) |-> [e[i] EXCEPT !.pre = p]]

\* what one invocation of the operation may return
OpErrs == {ErrOf("e1", 0), ErrOf("e2", 0)}
OpOutcomes == {NilErr} \cup OpErrs

ResilienceOptions ==
    [MaxRetries : -1..MaxRetriesArg, WaitTime : -1..MaxWaitArg,
     Backoff : BOOLEAN, RawError : BOOLEAN]
ZeroOptions ==
    [MaxRetries |-> 0, WaitTime |-> 0, Backoff |-> FALSE, RawError |-> FALSE]

\* NewResilience, lines 29-31: nil options are the zero options
OptionsOrZero(isNil, options) == IF isNil THEN ZeroOptions ELSE options

\* NewResilience, lines 33-35 and 41-43
NewResilienceErr(o) ==
    IF o.MaxRetries < 0 THEN ErrOf("MaxRetries cannot be negative", 0)
    ELSE IF o.WaitTime < 0 THEN ErrOf("WaitTime cannot be negative", 0)
    ELSE NilErr

NormMaxRetriesNoDefault(m) == m

\* NewResilience, lines 37-39
NormMaxRetries(m) == IF m = 0 THEN defaultMaxRetries ELSE m

\* NewResilience, lines 45-47
NormWaitTime(w) == IF w = 0 THEN defaultWaitTime ELSE w

\* NewResilience(options): the instance, or the error and no instance
NewResilience(isNil, options) ==
    LET o == OptionsOrZero(isNil, options) IN
    /\ newErr = NewResilienceErr(o)
    /\ IF NewResilienceErr(o) = NilErr
       THEN /\ maxRetries = NormMaxRetries(o.MaxRetries)
            /\ waitTime = NormWaitTime(o.WaitTime)
            /\ backoff = o.Backoff
            /\ rawError = o.RawError
       ELSE /\ maxRetries = 0
            /\ waitTime = 0
            /\ backoff = FALSE
            /\ rawError = FALSE

RSIdle ==
    /\ rsPc = "idle"
    /\ retryI = 0
    /\ curWait = 0
    /\ lastErr = NilErr
    /\ calls = <<>>
    /\ slept = 0
    /\ rsRet = NilErr

InitRS ==
    /\ \E isNil \in BOOLEAN, options \in ResilienceOptions :
           NewResilience(isNil, options)
    /\ RSIdle

\* RetryOperation, lines 65-66: the call enters the loop
RetryOperationCall ==
    /\ newErr = NilErr
    /\ rsPc \in {"idle", "done"}
    /\ rsPc' = "loop"
    /\ retryI' = 0
    /\ curWait' = waitTime
    /\ lastErr' = NilErr
    /\ calls' = <<>>
    /\ slept' = 0
    /\ rsRet' = NilErr
    /\ UNCHANGED <<newErr, maxRetries, waitTime, backoff, rawError>>
    /\ UNCHANGED <<ceVars, cwVars, cmVars, pchVars>>

\* RetryOperation, lines 67-79: one pass of the loop, the operation returning o
Attempt(o) ==
    /\ rsPc = "loop"
    /\ retryI < maxRetries
    /\ calls' = Append(calls, o)
    /\ lastErr' = o
    /\ IF o = NilErr
       THEN /\ rsPc' = "done"
            /\ rsRet' = NilErr
            /\ UNCHANGED <<retryI, curWait, slept>>
       ELSE /\ slept' = slept + (IF backoff THEN curWait ELSE waitTime)
            /\ curWait' = IF backoff THEN curWait * 2 ELSE curWait
            /\ retryI' = retryI + 1
            /\ UNCHANGED <<rsPc, rsRet>>
    /\ UNCHANGED <<newErr, maxRetries, waitTime, backoff, rawError>>
    /\ UNCHANGED <<ceVars, cwVars, cmVars, pchVars>>

\* RetryOperation, line 84
MaxRetriesExceeded(n) == ErrOf("max retries exceeded", n)

\* RetryOperation, lines 81-84: what the call returns once the loop is over
RetryError(raw, last, n) ==
    IF raw THEN last ELSE Join(last, MaxRetriesExceeded(n))

\* RetryOperation, lines 67 and 81-84: the loop condition fails
RetryExhausted ==
    /\ rsPc = "loop"
    /\ retryI >= maxRetries
    /\ rsPc' = "done"
    /\ rsRet' = RetryError(rawError, lastErr, maxRetries)
    /\ UNCHANGED <<retryI, curWait, lastErr, calls, slept>>
    /\ UNCHANGED <<newErr, maxRetries, waitTime, backoff, rawError>>
    /\ UNCHANGED <<ceVars, cwVars, cmVars, pchVars>>

NextRS ==
    \/ RetryOperationCall
    \/ \E o \in OpOutcomes : Attempt(o)
    \/ RetryExhausted

(***************************************************************************)
(* ProcessChain (src/process_chain.go)                                     *)
(* time.Sleep (lines 150-152, 163-165) changes no state and is left out,   *)
(* and with it the WaitBefore and WaitAfter fields of a link.              *)
(***************************************************************************)

\* links one chain holds
MaxLinks == 3
\* links given to one AddLinks call
MaxAddLinks == 2

LinkNames == {"a", "b"}

\* src/process_chain.go:15
ErrNilLinkFn == ErrOf("nil link function", 0)

\* what a link's Step or the save step may return
StepErrs == {ErrOf("s1", 0)}
StepOutcomes == {NilErr} \cup StepErrs

\* a LinkInfo: its name and whether its Step is nil
LinkInfo == [Name : LinkNames, Step : {"nil", "fn"}]
LinkSeqs == UNION { [1..n -> LinkInfo] : n \in 1..MaxAddLinks }

NoChainRet == [names |-> <<>>, err |-> NilErr]

\* NewProcessChain(opts), lines 54-69
NewProcessChain(isNil, opt) ==
    /\ addLinkNameToError = (IF isNil THEN FALSE ELSE opt)
    /\ links = <<>>
    /\ saveStep = "nil"

PCHIdle ==
    /\ addRet = NilErr
    /\ ignorableLinks = {}
    /\ exMode = "none"
    /\ linkPos = 0
    /\ successExecutedLinks = <<>>
    /\ ran = <<>>
    /\ saves = <<>>
    /\ pchPc = "idle"
    /\ pchRet = NoChainRet

InitPCH ==
    /\ \E isNil \in BOOLEAN, opt \in BOOLEAN : NewProcessChain(isNil, opt)
    /\ PCHIdle

\* the caller is not inside execute
ChainAtRest == pchPc \in {"idle", "done"}

\* AddLink, lines 97-101: the chain after the call, and what the call returns
AddLinkTo(ls, link) == IF link.Step = "nil" THEN ls ELSE Append(ls, link)
AddLinkErr(link) == IF link.Step = "nil" THEN ErrNilLinkFn ELSE NilErr

\* AddLinks, lines 105-110: the links before the first one AddLink refuses
RECURSIVE AddLinksTo(_, _)
AddLinksTo(ls, new) ==
    IF new = <<>> THEN ls
    ELSE IF AddLinkErr(Head(new)) # NilErr THEN ls
    ELSE AddLinksTo(AddLinkTo(ls, Head(new)), Tail(new))

RECURSIVE AddLinksErr(_)
AddLinksErr(new) ==
    IF new = <<>> THEN NilErr
    ELSE IF AddLinkErr(Head(new)) # NilErr THEN AddLinkErr(Head(new))
    ELSE AddLinksErr(Tail(new))

AddLink(link) ==
    /\ ChainAtRest
    /\ Len(links) < MaxLinks
    /\ links' = AddLinkTo(links, link)
    /\ addRet' = AddLinkErr(link)
    /\ pchPc' = "idle"
    /\ UNCHANGED <<saveStep, addLinkNameToError, ignorableLinks, exMode, linkPos,
                   successExecutedLinks, ran, saves, pchRet>>
    /\ UNCHANGED <<ceVars, cwVars, cmVars, rsVars>>

AddLinks(new) ==
    /\ ChainAtRest
    /\ Len(links) + Len(new) <= MaxLinks
    /\ links' = AddLinksTo(links, new)
    /\ addRet' = AddLinksErr(new)
    /\ pchPc' = "idle"
    /\ UNCHANGED <<saveStep, addLinkNameToError, ignorableLinks, exMode, linkPos,
                   successExecutedLinks, ran, saves, pchRet>>
    /\ UNCHANGED <<ceVars, cwVars, cmVars, rsVars>>

\* SetSaveStep, lines 113-115
SetSaveStep(s) ==
    /\ ChainAtRest
    /\ saveStep' = s
    /\ pchPc' = "idle"
    /\ UNCHANGED <<links, addLinkNameToError, addRet, ignorableLinks, exMode,
                   linkPos, successExecutedLinks, ran, saves, pchRet>>
    /\ UNCHANGED <<ceVars, cwVars, cmVars, rsVars>>

\* GetChain, lines 117-123
GetChain == [i \in 1..Len(links) |-> links[i].Name]

\* execute, lines 140-142: the call enters the loop
executeEnter ==
    /\ ChainAtRest
    /\ linkPos' = 1
    /\ successExecutedLinks' = <<>>
    /\ ran' = <<>>
    /\ saves' = <<>>
    /\ pchPc' = "link"
    /\ pchRet' = NoChainRet
    /\ UNCHANGED <<links, saveStep, addLinkNameToError, addRet>>
    /\ UNCHANGED <<ceVars, cwVars, cmVars, rsVars>>

\* Execute, lines 125-127: execute with a nil map
Execute ==
    /\ exMode' = "Execute"
    /\ ignorableLinks' = {}
    /\ executeEnter

\* ExecuteWithIgnorableLinks, lines 129-137: execute with the names as a map
ExecuteWithIgnorableLinks(ign) ==
    /\ exMode' = "ExecuteWithIgnorableLinks"
    /\ ignorableLinks' = ign
    /\ executeEnter

LinkAtReversed(ls, i) == ls[Len(ls) + 1 - i]

\* execute, line 142: range visits the links in slice order
LinkAt(ls, i) == ls[i]

\* execute, lines 145-148: an ignorable link is counted and not run
LinkSkip ==
    /\ pchPc = "link"
    /\ linkPos <= Len(links)
    /\ LinkAt(links, linkPos).Name \in ignorableLinks
    /\ successExecutedLinks' = Append(successExecutedLinks, LinkAt(links, linkPos).Name)
    /\ linkPos' = linkPos + 1
    /\ UNCHANGED <<links, saveStep, addLinkNameToError, addRet, ignorableLinks,
                   exMode, ran, saves, pchPc, pchRet>>
    /\ UNCHANGED <<ceVars, cwVars, cmVars, rsVars>>

\* execute, lines 155-157
StepError(addName, linkName, e) == IF addName THEN WithPrefix(linkName, e) ELSE e

\* execute, lines 154-167: the link's Step runs and returns o
LinkStep(o) ==
    /\ pchPc = "link"
    /\ linkPos <= Len(links)
    /\ LinkAt(links, linkPos).Name \notin ignorableLinks
    /\ LET linkName == LinkAt(links, linkPos).Name IN
       /\ ran' = Append(ran, [pos |-> linkPos, name |-> linkName, out |-> o])
       /\ IF o # NilErr
          THEN /\ pchRet' = [names |-> successExecutedLinks,
                             err |-> StepError(addLinkNameToError, linkName, o)]
               /\ pchPc' = "done"
               /\ UNCHANGED <<successExecutedLinks, linkPos>>
          ELSE /\ successExecutedLinks' = Append(successExecutedLinks, linkName)
               /\ IF saveStep # "nil"
                  THEN pchPc' = "save" /\ UNCHANGED linkPos
                  ELSE linkPos' = linkPos + 1 /\ UNCHANGED pchPc
               /\ UNCHANGED pchRet
    /\ UNCHANGED <<links, saveStep, addLinkNameToError, addRet, ignorableLinks,
                   exMode, saves>>
    /\ UNCHANGED <<ceVars, cwVars, cmVars, rsVars>>

SaveFailNamesAll(s) == s

\* execute, line 172
SaveFailNames(s) == SubSeq(s, 1, Len(s) - 1)

\* execute, lines 169-171
SaveError(addName, e) == IF addName THEN WithPrefix("saveStep", e) ELSE e

\* execute, lines 167-174: the save step runs and returns o
SaveStepRun(o) ==
    /\ pchPc = "save"
    /\ saves' = Append(saves, [names |-> successExecutedLinks, out |-> o])
    /\ IF o # NilErr
       THEN /\ pchRet' = [names |-> SaveFailNames(successExecutedLinks),
                          err |-> SaveError(addLinkNameToError, o)]
            /\ pchPc' = "done"
            /\ UNCHANGED linkPos
       ELSE /\ linkPos' = linkPos + 1
            /\ pchPc' = "link"
            /\ UNCHANGED pchRet
    /\ UNCHANGED <<links, saveStep, addLinkNameToError, addRet, ignorableLinks,
                   exMode, successExecutedLinks, ran>>
    /\ UNCHANGED <<ceVars, cwVars, cmVars, rsVars>>

\* execute, line 177: the loop is over
executeReturn ==
    /\ pchPc = "link"
    /\ linkPos > Len(links)
    /\ pchRet' = [names |-> successExecutedLinks, err |-> NilErr]
    /\ pchPc' = "done"
    /\ UNCHANGED <<links, saveStep, addLinkNameToError, addRet, ignorableLinks,
                   exMode, linkPos, successExecutedLinks, ran, saves>>
    /\ UNCHANGED <<ceVars, cwVars, cmVars, rsVars>>

NextPCH ==
    \/ \E link \in LinkInfo : AddLink(link)
    \/ \E new \in LinkSeqs : AddLinks(new)
    \/ \E s \in {"nil", "fn"} : SetSaveStep(s)
    \/ Execute
    \/ \E ign \in SUBSET LinkNames : ExecuteWithIgnorableLinks(ign)
    \/ LinkSkip
    \/ \E o \in StepOutcomes : LinkStep(o)
    \/ \E o \in StepOutcomes : SaveStepRun(o)
    \/ executeReturn

(***************************************************************************)
(* The specifications: one per component.                                  *)
(***************************************************************************)

\* the component is not in use
CEUnused == InitCE
CWUnused == InitCW /\ maxWorkers = 1
CMUnused ==
    /\ NewConcurrentManager(1, 1, 3)
    /\ loops = [s \in Sessions |-> <<"none", 0>>]
    /\ cmPc = [t \in CMThreads |-> "idle"]
    /\ cmPanicked = FALSE
RSUnused == NewResilience(TRUE, ZeroOptions) /\ RSIdle
PCHUnused == NewProcessChain(TRUE, FALSE) /\ PCHIdle

InitSpecCE == InitCE /\ CWUnused /\ CMUnused /\ RSUnused /\ PCHUnused
SpecCE == InitSpecCE /\ [][NextCE]_vars

InitSpecCW == InitCW /\ CEUnused /\ CMUnused /\ RSUnused /\ PCHUnused
SpecCW == InitSpecCW /\ [][NextCW]_vars

\* the launcher under a scheduler that lets every goroutine that can run take
\* its step, with units that return
FairCW ==
    /\ WF_vars(UnitDone)
    /\ WF_vars(UnitRelease)
    /\ \A t \in CWThreads : WF_vars(ExecuteSend(t)) /\ WF_vars(ExecuteLaunch(t))

SpecCWFair == InitSpecCW /\ [][NextCW]_vars /\ FairCW

InitSpecCM == InitCM /\ CEUnused /\ CWUnused /\ RSUnused /\ PCHUnused
SpecCM == InitSpecCM /\ [][NextCM]_vars

InitSpecRS == InitRS /\ CEUnused /\ CWUnused /\ CMUnused /\ PCHUnused
SpecRS == InitSpecRS /\ [][NextRS]_vars

InitSpecPCH == InitPCH /\ CEUnused /\ CWUnused /\ CMUnused /\ RSUnused
SpecPCH == InitSpecPCH /\ [][NextPCH]_vars

(***************************************************************************)
(* Properties of ConcurrentExec                                            *)
(***************************************************************************)

\* C1: workers of two different batches are never in flight at the same time,
\* and an ExecuteFns call that arrives while a worker of an earlier batch has
\* not returned is not accepted.
C1_SingleFlight ==
    [][/\ \A w1, w2 \in workers' : w1.b = w2.b
       /\ \A c \in Clients : (pc[c] = Idle /\ pc'[c] = ExecInitPc) => workers = {}]_vars

\* C6: when Results() and Errors() return, both sequences have the length of
\* the batch, Errors()[i] is the error fns[i] returned and Results()[i] is the
\* value fns[i] returned (the zero value for a nil pointer), for every i and
\* every completion order.
C6_IndexCorrespondence ==
    [][\A c \in Clients :
          /\ (pc[c] = PassPc("Results") /\ pc'[c] = Idle)
                => ret'[c].val = [i \in 1..Len(fns) |-> ResultOf(fns[i])]
          /\ (pc[c] = PassPc("Errors") /\ pc'[c] = Idle)
                => ret'[c].val = [i \in 1..Len(fns) |-> fns[i].err]]_vars

C8_CancelJoins ==
    \A c \in Clients :
       /\ pc[c] = CancelWaitPc => (~running /\ curb \in cancelled)
       /\ ret[c].op = "CancelExecution" => workers = {}
       /\ pc[c] = CancelWaitPc => (panicked \/ ENABLED NextCE)

FailedWorkerReturns ==
    \E w \in workers : w.fn.err # "nil" /\ workers' = workers \ {w}

\* C21: a function returning an error never cancels the derived context, never
\* changes running and leaves its siblings to be invoked and recorded: the
\* launch starts one worker per function of the batch, and when Errors() and
\* Results() return for a batch, errs holds nil exactly at the indices of the
\* functions that succeeded and results holds the values of those functions.
C21_ErrorIsolation ==
    [][/\ FailedWorkerReturns => (running' = running /\ cancelled' = cancelled)
       /\ \A c \in Clients :
             (pc[c] = ExecInitPc /\ pc'[c] = Idle)
                => /\ Cardinality(workers' \ workers) = Len(fns')
                   /\ {w.pos : w \in workers' \ workers} = 1..Len(fns')
                   /\ \A w \in workers' \ workers : w.fn = fns'[w.pos]
       /\ \A c \in Clients :
             (pc[c] = PassPc("Errors") /\ pc'[c] = Idle)
                => /\ Len(ret'[c].val) = Len(fns)
                   /\ \A i \in 1..Len(fns) :
                         (ret'[c].val[i] = "nil") <=> (fns[i].err = "nil")
       /\ \A c \in Clients :
             (pc[c] = PassPc("Results") /\ pc'[c] = Idle)
                => \A i \in 1..Len(fns) :
                      fns[i].err = "nil" => ret'[c].val[i] = fns[i].val]_vars

UsageErrs == {ConcurrentExecNilContextErr, ConcurrentExecFnsNilOrEmptyErr}

\* C22: ExecuteFns with a nil context returns the nil-context error, whatever
\* the functions, and ExecuteFns with a context and no functions returns the
\* empty-batch error; a call that returns one of the two launches no worker
\* and leaves running, results, errs, the WaitGroup and the derived context
\* unchanged.
C22_UsageErrors ==
    [][/\ \A n \in 0..MaxFns : ArgError(TRUE, n) = ConcurrentExecNilContextErr
       /\ ArgError(FALSE, 0) = ConcurrentExecFnsNilOrEmptyErr
       /\ \A c \in Clients :
             (ret'[c] # ret[c] /\ ret'[c].op = "ExecuteFns" /\ pc[c] = Idle)
                => /\ ret'[c].val \in {<<e>> : e \in UsageErrs \cup {ConcurrentExecAlreadyRunningErr}}
                   /\ ret'[c].val \in {<<e>> : e \in UsageErrs}
                         => UNCHANGED <<running, results, errs, wg, curb, cancelled,
                                        fns, workers, pc>>]_vars

\* a call with a nil context was refused while a batch was in flight, and the
\* batch is as it was
C22_Witness ==
    /\ ret["a"] = [op |-> "ExecuteFns", val |-> <<ConcurrentExecNilContextErr>>]
    /\ running
    /\ workers # {}
    /\ curb = 1

\* C23: a teardown that belongs to an already-collected batch never resets
\* running and never cancels the derived context of a batch started afterwards:
\* when the waiter of Done runs its unblockExecution while workers are in
\* flight (workers launched after the waiter's Wait() returned, so of a batch
\* the waiter was not started for), running and the cancelled contexts stay as
\* they were.
C23_StaleTeardown ==
    [][(doneTorn' = doneTorn + 1 /\ workers # {})
          => (running' = running /\ cancelled' = cancelled)]_vars

\* C24: each channel returned by Done() is closed exactly once (a close is
\* the last step of one waiter, and the closed channels never become fewer),
\* never before every worker of the batch has returned (the waiter's Wait()
\* returns with no worker outstanding), and at the moment it is closed
\* running is false.
C24_DoneSignal ==
    [][/\ doneClosed' >= doneClosed
       /\ doneClosed' # doneClosed
             => (doneClosed' = doneClosed + 1 /\ doneTorn' = doneTorn - 1 /\ doneTorn > 0)
       /\ doneWait' < doneWait => (workers = {} /\ wg = 0)
       /\ doneClosed' # doneClosed => ~running]_vars

FailedAt(es) == {i \in 1..Len(es) : es[i] # "nil"}

\* the k-th smallest element of a set of indices
Kth(S, k) == CHOOSE i \in S : Cardinality({j \in S : j < i}) = k - 1

C29_RepeatedAccessors ==
    [][\A c \in Clients : \A op \in {"Results", "Errors"} :
          (pc[c] = PassPc(op) /\ pc'[c] = Idle)
             => /\ ~running' /\ curb \in cancelled'
                /\ ret[c].op = op => ret'[c] = ret[c]]_vars

\* Results has returned the two results of a completed batch, and a second
\* Results call, with no call in between, is past its join and about to return
C29_Witness ==
    /\ pc["a"] = PassPc("Results")
    /\ ret["a"].op = "Results"
    /\ Len(ret["a"].val) = MaxFns
    /\ ret["a"].val = results
    /\ ~running
    /\ workers = {}

\* C36: argument validation precedes the single-flight check: ExecuteFns
\* called with a nil context or with no functions while a batch is running
\* returns the argument error, not the already-running error, and leaves the
\* running flag, results, errs and the context of the running batch
\* untouched.
C36_ValidationFirst ==
    /\ [](\A c \in Clients :
            (running /\ pc[c] = Idle /\ ~panicked)
               => /\ \A n \in 0..MaxFns :
                        ExecuteFnsErr(TRUE, n, running) = ConcurrentExecNilContextErr
                  /\ ExecuteFnsErr(FALSE, 0, running) = ConcurrentExecFnsNilOrEmptyErr
                  /\ \A e \in UsageErrs :
                        ENABLED (ExecuteFnsBadArgs(c) /\ ret'[c].val = <<e>>))
    /\ [][\A c \in Clients :
            (running /\ ExecuteFnsBadArgs(c))
               => /\ ret'[c].val \in {<<e>> : e \in UsageErrs}
                  /\ UNCHANGED <<running, results, errs, wg, curb, cancelled, fns,
                                 workers, pc>>]_vars

\* a call with no functions was refused with the empty-batch error while the
\* worker of a second batch was in flight
C36_Witness ==
    /\ ret["a"] = [op |-> "ExecuteFns", val |-> <<ConcurrentExecFnsNilOrEmptyErr>>]
    /\ running
    /\ wg >= 1
    /\ curb = 2


(***************************************************************************)

\* C2: for a launcher of capacity K >= 1, at most K submitted units are
\* executing in every reachable state, under any interleaving of Execute, Wait
\* and Stop: every running unit and every unit about to be launched holds a
\* token of the K-slot channel, so a unit submitted while K are executing does
\* not start before one of them has completed and given its token back.
C2_AtMostKRunning ==
    /\ maxWorkers >= 1
    /\ unitsRun <= maxWorkers
    /\ unitsRun + unitsDone + Cardinality({t \in CWThreads : cwPc[t] = <<"Execute", "add", "">>}) = ch
    /\ ch <= maxWorkers

\* K units are executing and one more submission is blocked on its token
C2_Witness ==
    /\ unitsRun = maxWorkers
    /\ \E t \in CWThreads : cwPc[t] = <<"Execute", "send", "">> /\ mu = t

\* C10: Wait returns only after every unit accepted by an Execute call has
\* finished running, and on return the launcher is closed; also when Execute
\* calls run concurrently with Wait.
C10_WaitAfterUnits ==
    [][\A t \in CWThreads :
          (cwPc[t][1] = "Wait" /\ cwPc'[t] = CwIdle)
             => (unitsRun = 0 /\ Accepted = {} /\ closed')]_vars

\* C11: once the launcher is closed, every Execute call returns to its caller,
\* the first one and all later ones, without running its unit and without
\* taking a token: a call that has reached cw.mu.Lock() on a closed launcher
\* can go on, and when it does it returns with the channel, the WaitGroup and
\* the running units as they were.
C11_ClosedExecuteReturns ==
    [][\A t \in CWThreads :
          (closed /\ cwPc[t] = <<"Execute", "lock", "">>)
             => /\ ENABLED ExecuteLock(t)
                /\ cwPc'[t] # cwPc[t]
                      => (cwPc'[t] = CwIdle /\ ch' = ch /\ cwWg' = cwWg /\ unitsRun' = unitsRun)]_vars

\* C12: the close transition happens at most once: the step that sets closed
\* is the close of a Wait or Stop call and records that call's error (nil for
\* Wait, the argument for Stop); from then on closed stays true and the
\* recorded error and the channel's closed state never change, whatever later
\* Wait or Stop calls do; before it the error is nil.
C12_CloseOnce ==
    [][/\ closed => (closed' /\ err' = err /\ chClosed' = chClosed)
       /\ (~closed /\ closed')
             => \E t \in CWThreads :
                   InClose(t) /\ closeOnce = t /\ cwPc'[t] = CwIdle /\ err' = cwPc[t][3]
       /\ ~closed' => (err' = "nil" /\ ~chClosed')]_vars

\* Stop(e1) closed the launcher, and a later Wait has returned and left the
\* error as it was
C12_Witness == closed /\ err = "e1" /\ waited /\ closeOnce = "done"

\* C13: Stop does not wait for in-flight units: in every reachable state with a
\* thread inside Stop, a step of the close (entering closeOnce.Do, its body,
\* or the return of a later caller) can be taken, or the Execute that holds
\* cw.mu can complete its send, without a running unit having to complete.
C13_StopDoesNotWait ==
    (\E t \in CWThreads : cwPc[t][1] = "Stop")
       => ENABLED (\E u \in CWThreads :
                     closeEnter(u) \/ closeBody(u) \/ closeSkip(u) \/ ExecuteSend(u))

\* C14: no thread blocks on a channel operation or on a join while it holds a
\* component mutex: the holder of cw.mu is never parked on the send into a
\* full token channel.
C14_NoBlockingUnderMutex ==
    \A t \in CWThreads :
       mu = t => ~(cwPc[t] = <<"Execute", "send", "">> /\ ch = maxWorkers)

SendPc == <<"Execute", "send", "">>
AddPc == <<"Execute", "add", "">>

\* C31: for a launcher of capacity K >= 1, an Execute call blocked because
\* all K tokens are in use eventually acquires a token and launches its unit
\* once a running unit completes; acquiring a token never yields an error:
\* the send is never made on a closed channel, it leads to the launch, and
\* the call returns with its unit launched.
C31_BlockedExecuteProceeds ==
    /\ [](\A t \in CWThreads : cwPc[t] = SendPc => (mu = t /\ ~closed /\ ~chClosed))
    /\ [][\A t \in CWThreads :
            /\ (cwPc[t] = SendPc /\ cwPc'[t] # SendPc) => (cwPc'[t] = AddPc /\ ch' = ch + 1)
            /\ (cwPc[t] = AddPc /\ cwPc'[t] # AddPc)
                  => (cwPc'[t] = CwIdle /\ unitsRun' = unitsRun + 1)]_vars
    /\ \A t \in CWThreads : (cwPc[t] = SendPc /\ ch = maxWorkers) ~> (cwPc[t] = AddPc)
    /\ \A t \in CWThreads : (cwPc[t] = AddPc) ~> (cwPc[t] = CwIdle)

\* an Execute is blocked on the full channel and a unit has just completed:
\* the token it is about to give back is the one the blocked call will take
C31_Witness ==
    /\ unitsDone >= 1
    /\ ch = maxWorkers
    /\ \E t \in CWThreads : cwPc[t] = SendPc /\ mu = t

\* C32: under any interleaving of Execute with Wait and Stop, Execute never
\* sends on the channel after it has been closed: the step that sends finds
\* the launcher open and the channel not closed, and the step that closes
\* the channel finds no Execute between its closed check and its send.
C32_NoSendAfterClose ==
    [][/\ \A t \in CWThreads :
             (cwPc[t] = SendPc /\ cwPc'[t] # SendPc) => (~closed /\ ~chClosed)
       /\ (~chClosed /\ chClosed') => \A t \in CWThreads : cwPc[t] # SendPc]_vars

\* the channel has been closed between the send of an Execute and its launch,
\* and another Execute is waiting for cw.mu
C32_Witness ==
    /\ chClosed
    /\ \E t \in CWThreads : cwPc[t] = AddPc
    /\ \E t \in CWThreads : cwPc[t] = <<"Execute", "lock", "">>

\* C35: in every reachable state of the launcher the number of units the
\* join counter counts as in flight is at most the number of tokens held in
\* the channel, which is at most maxWorkers.
C35_CounterWithinTokens ==
    /\ 0 <= cwWg
    /\ cwWg <= ch
    /\ ch <= maxWorkers

\* capacity 2: one unit is running and counted, a second has run cw.wg.Done()
\* and still holds its token
C35_Witness ==
    /\ maxWorkers = 2
    /\ cwWg = 1
    /\ unitsRun = 1
    /\ unitsDone = 1
    /\ ch = 2

(***************************************************************************)
(* Properties of ConcurrentManager                                         *)
(***************************************************************************)

\* C3: 0 <= allocated <= currentMax holds in every reachable state, under any
\* interleaving of concurrent Allocate, Release, growth-loop steps and Wait.
C3_AllocatedInRange == built => (0 <= allocated /\ allocated <= currentMax)

C5_SingleGrowthLoop ==
    [][/\ Cardinality(ActiveLoops') <= 1
       /\ (currentMax' > currentMax => once)]_vars

\* C15: in a session in which Allocate has been called and Wait has not, the
\* ceiling climbs to max as ticks keep occurring: while currentMax is below
\* max, the tick that calculateNewMax computes from it raises it, for every
\* normalized configuration.
C15_TickRaisesCeiling ==
    (built /\ once /\ session = 1 /\ currentMax < max)
       => NewMax(currentMax, rate2, max) > currentMax

\* C16: after Wait has returned, and as long as no growth loop has been started
\* in the fresh session, currentMax = prevMax = min and exactly min slots are
\* allocable: the slots held and the room left in the slot channel add up to
\* min.
C16_FreshSession ==
    (/\ CMRuns
     /\ session >= 2
     /\ ~once
     /\ \A t \in CMThreads : cmPc[t] = "idle")
       => (currentMax = min /\ prevMax = min /\ allocated + (max - tokens) = min)

\* the slots an Allocate can take at once: the room left in c.workers
Allocable == max - tokens

\* C17: a Release with allocated = 0 changes nothing, so that, whatever the
\* number of Release calls, allocated is never negative and the number of
\* allocable slots never exceeds currentMax.
C17_ReleaseNeverOverReleases ==
    CMRuns => (allocated >= 0 /\ Allocable <= currentMax)

\* C18: for every combination of constructor arguments, zero and negative
\* values included, NewConcurrentManager returns, and on the manager it
\* returns a first Allocate finds a free slot.
C18_ConstructorReturns ==
    /\ built
    /\ (session = 1 /\ ~once) => Allocable >= 1

\* floor of n/2 for n >= 0, by its defining inequalities
FloorHalf(n) == CHOOSE k \in 0..n : 2 * k <= n /\ n < 2 * (k + 1)

MinOf(a, b) == IF a < b THEN a ELSE b

SlotInFlight == {t \in CMThreads : cmPc[t] \in {"Allocate_add", "Release_recv"}}

\* C26: Wait does not reinitialise the manager while any allocated slot is
\* unreleased: in the step that runs init no slot is counted as allocated,
\* the join counter is zero and no thread holds a slot it has taken and not
\* given back.
C26_WaitDrains ==
    [][session' # session
          => (allocated = 0 /\ cmWg = 0 /\ SlotInFlight = {})]_vars

\* a Release or a growth is part-way through making a slot available
SlotComing ==
    \/ \E t \in CMThreads : cmPc[t] = "Release_recv"
    \/ \E s \in Sessions : loops[s][1] = "drain"

\* C27: an Allocate call that finds allocated equal to currentMax does not
\* complete until a Release or a ceiling growth makes a slot available: with
\* allocated = currentMax and no Release or growth part-way through, the send
\* of a pending Allocate cannot be taken; and a pending Allocate can take its
\* slot as soon as the channel has room.
C27_AllocateBlocksAtCeiling ==
    \A t \in CMThreads :
       (CMRuns /\ cmPc[t] = "Allocate_send")
          => /\ (allocated = currentMax /\ ~SlotComing) => ~ENABLED AllocateSend(t)
             /\ tokens < max => ENABLED AllocateSend(t)

\* no Allocate, Release or growth step is part-way through
Quiescent ==
    /\ \A t \in CMThreads : cmPc[t] \notin {"Allocate_send", "Allocate_add", "Release_recv"}
    /\ ~SlotComing

\* C30: in every state of the manager where no Allocate, Release or growth
\* step is part-way through, the number of Allocate calls that can complete
\* without blocking equals currentMax - allocated; equivalently the slot
\* channel holds exactly (max - currentMax) + allocated tokens.
C30_TokenAccounting ==
    (CMRuns /\ Quiescent)
       => (Allocable = currentMax - allocated /\ tokens = (max - currentMax) + allocated)

\* the threads inside Allocate
InAllocate == {t \in CMThreads : cmPc[t] \in {"Allocate_send", "Allocate_add"}}

\* C33: Wait reinitialises the manager only when no Allocate call is
\* part-way through: in the step that runs init no thread is inside
\* Allocate, no send is made on the channel that init closes (no panic), and
\* when Wait returns allocated is 0 and the new channel holds exactly
\* max - min tokens.
C33_WaitExcludesAllocate ==
    [][session' # session
          => /\ InAllocate = {}
             /\ ~cmPanicked'
             /\ allocated' = 0
             /\ tokens' = max - min]_vars

\* C34: Release on the manager never blocks: whenever its guarded decrement
\* of allocated has succeeded, the slot channel holds a token for it to
\* remove, so that its receive can be taken; and the join counter never goes
\* below zero.
C34_ReleaseNeverBlocks ==
    CMRuns
       => /\ \A t \in CMThreads : cmPc[t] = "Release_recv" => (tokens > 0 /\ ENABLED ReleaseRecv(t))
          /\ cmWg >= 0

(***************************************************************************)
(* Properties of Resilience                                                *)
(***************************************************************************)

StepFailed == ran # <<>> /\ ran[Len(ran)].out # NilErr
SaveFailed == saves # <<>> /\ saves[Len(saves)].out # NilErr

\* C38: Execute runs the links in the order they were added, one Step per
\* link; after a failure no later link runs; the call returns the names of the
\* links before the failed one, in order, with the error of the failure, and
\* all the names with no error when nothing failed.
C38_ExecuteInOrder ==
    (exMode = "Execute" /\ pchPc # "idle") =>
        /\ Len(ran) <= Len(links)
        /\ \A i \in 1..Len(ran) : ran[i].pos = i /\ ran[i].name = links[i].Name
        /\ \A i \in 1..(Len(ran) - 1) : ran[i].out = NilErr
        /\ \A j \in 1..(Len(saves) - 1) : saves[j].out = NilErr
        /\ (StepFailed \/ SaveFailed) => pchPc = "done"
        /\ pchPc = "done" =>
               IF StepFailed
               THEN /\ pchRet.names = SubSeq(GetChain, 1, Len(ran) - 1)
                    /\ pchRet.err = IF addLinkNameToError
                                    THEN WithPrefix(ran[Len(ran)].name, ran[Len(ran)].out)
                                    ELSE ran[Len(ran)].out
               ELSE IF SaveFailed
               THEN pchRet.names = SubSeq(GetChain, 1, Len(ran) - 1)
               ELSE /\ Len(ran) = Len(links)
                    /\ pchRet.names = GetChain
                    /\ pchRet.err = NilErr

\* an Execute call that stopped at the failing second link of three
C38_Witness ==
    /\ exMode = "Execute"
    /\ pchPc = "done"
    /\ Len(links) = 3
    /\ Len(ran) = 2
    /\ StepFailed
    /\ pchRet.names = <<links[1].Name>>
    /\ pchRet.err # NilErr

\* Step invocations of the call that returned nil
RanOk == {i \in 1..Len(ran) : ran[i].out = NilErr}

\* C39: when a save step is set it is invoked once after each link whose Step
\* returned nil, with the names of the links up to that one; when it fails no
\* link and no save runs after it, and the call returns its error and the
\* names of the links before the one whose save failed.
C39_SaveStep ==
    pchPc # "idle" =>
        /\ saveStep = "nil" => saves = <<>>
        /\ saveStep # "nil" =>
               Len(saves) = Cardinality(RanOk) - (IF pchPc = "save" THEN 1 ELSE 0)
        /\ \A j \in 1..Len(saves) :
               /\ ran[j].out = NilErr
               /\ saves[j].names = SubSeq(GetChain, 1, ran[j].pos)
        /\ \A j \in 1..(Len(saves) - 1) : saves[j].out = NilErr
        /\ SaveFailed =>
               /\ pchPc = "done"
               /\ Len(ran) = Len(saves)
               /\ pchRet.err = (IF addLinkNameToError
                                THEN WithPrefix("saveStep", saves[Len(saves)].out)
                                ELSE saves[Len(saves)].out)
               /\ pchRet.names = SubSeq(GetChain, 1, ran[Len(ran)].pos - 1)
               /\ Len(pchRet.names) = Len(saves[Len(saves)].names) - 1

\* the save step failed after the second of three links
C39_Witness ==
    /\ pchPc = "done"
    /\ Len(links) = 3
    /\ Len(saves) = 2
    /\ SaveFailed
    /\ saves[2].names = <<links[1].Name, links[2].Name>>
    /\ pchRet.names = <<links[1].Name>>
    /\ pchRet.err # NilErr
====
